---------------------------- MODULE Spec2Model ----------------------------
(***************************************************************************)
(* Model of the document-assistant demo (src/deepseek_RAG.py): chunking,   *)
(* the in-memory vector index, similarity retrieval, prompt assembly and   *)
(* the Streamlit script that drives them; of the two puzzle benchmarks     *)
(* (src/benchmark-npr-sunday-puzzle-challenge-gpt4omini.py,                *)
(* src/deepseek-R1-7B-benchmark-test.py); and of the configuration         *)
(* function of src/ollama_hyperparameter_tuning_playground.py.             *)
(*                                                                         *)
(* Text is a sequence of one-character strings.  Offsets are 0-based, as   *)
(* in Python.  The library calls made by the source (the text splitter,    *)
(* the in-memory vector store, the prompt template) are modelled by what   *)
(* the called method does.                                                 *)
(***************************************************************************)
EXTENDS Integers, Sequences, FiniteSets, TLC

VARIABLES
    \* ---- chunker harness (chunk_documents as a function) ----
    c_doc,        \* the page text handed to the splitter
    c_size,       \* chunk_size of the splitter
    c_overlap,    \* chunk_overlap of the splitter
    c_done,       \* the splitter has run
    c_out,        \* the sequence of chunks produced
    \* ---- the vector index ----
    DOCUMENT_VECTOR_DB,   \* the entries of the InMemoryVectorStore
    numpy_ties,           \* how the NumPy build orders equal keys in argsort
    \* ---- index harness (index_documents / similarity_search as functions) ----
    s_raised,     \* what the last index_documents call raised ("none": nothing)
    s_last,       \* the last search since the last insertion (NoSearch: none)
    s_repeated,   \* the last search repeated the query and k of the one before
    \* ---- the Streamlit session of deepseek_RAG.py ----
    pc,             \* where the script run stands ("idle": waiting for the user)
    uploaded_pdf,   \* the file held by st.file_uploader ("none": no file)
    user_input,     \* the question st.chat_input returns in this run (<<>>: None)
    calls,          \* the pipeline steps this script run has started, in order
    relevant_docs,  \* what find_related_documents returned in this run
    prompt,         \* the prompt handed to LANGUAGE_MODEL in this run
    llm_output,     \* what LANGUAGE_MODEL returned in this run (<<>>: nothing)
    ai_response,    \* the answer written to the chat in this run (<<>>: none)
    raised,         \* the exception that ended this script run ("none": none)
    first_ingest,   \* the index right after the first successful ingest of the
                    \* uploaded file
    answered,       \* questions answered since the upload, counted to MaxQuestions
    \* ---- grading harness (analyze_response as a function) ----
    g_response,      \* the model's answer handed to analyze_response
    g_ground_truth,  \* the ground truth handed to analyze_response
    g_done,          \* analyze_response has run
    g_correct,       \* what analyze_response of the hosted-API benchmark returned
    g_correct_local, \* what analyze_response of the local-server benchmark returned
    \* ---- configuration harness (create_ollama_config as a function) ----
    o_params,        \* the dictionary handed to create_ollama_config
    o_done,          \* create_ollama_config has run
    o_config,        \* the dictionary create_ollama_config returned
    o_params_after,  \* the dictionary handed in, as it is after the call
    \* ---- the Streamlit session of a benchmark application ----
    b_app,            \* which benchmark runs: "hosted" (gpt-4o-mini) or "local"
    b_pc,             \* where the script run stands ("idle": waiting for the user)
    difficulty,       \* the Difficulty Level multiselect
    category,         \* the Category multiselect
    input_type,       \* the radio: "Sample Puzzle" or "Custom Puzzle"
    rendered,         \* the input type the last run showed ("none": no run yet)
    clicked,          \* this run was started by a click on "Test Model"
    options,          \* the options the selectbox had in the last run
    selected_puzzle,  \* the value of the selectbox (NoPuzzle: None)
    puzzle,           \* the puzzle text
    b_ground_truth,     \* the correct answer
    b_calls,          \* the steps the "Test Model" handler has taken, in order
    b_outcome,        \* what the server did with the completion request
    b_connected,      \* what the client initialisation returned
    b_response,         \* what get_model_response returned
    b_result,         \* the Result metric shown ("none": not shown)
    b_raised          \* the exception that ended this script run ("none": none)

chunkVars == <<c_doc, c_size, c_overlap, c_done, c_out>>
indexVars == <<DOCUMENT_VECTOR_DB, numpy_ties>>
searchVars == <<s_raised, s_last, s_repeated>>
appVars == <<pc, uploaded_pdf, user_input, calls, relevant_docs, prompt, llm_output,
             ai_response, raised, first_ingest, answered>>
gradeVars == <<g_response, g_ground_truth, g_done, g_correct, g_correct_local>>
ollamaVars == <<o_params, o_done, o_config, o_params_after>>
benchVars == <<b_app, b_pc, difficulty, category, input_type, rendered, clicked, options,
               selected_puzzle, puzzle, b_ground_truth, b_calls, b_outcome, b_connected,
               b_response, b_result, b_raised>>
vars == <<chunkVars, indexVars, searchVars, appVars, gradeVars, ollamaVars, benchVars>>

(***************************************************************************)
(* Bounds                                                                  *)
(***************************************************************************)
MaxDocLen == 4      \* longest enumerated page text of the chunker harness
MaxChunk == 3       \* largest enumerated chunk_size of the chunker harness
MaxEntries == 3     \* most entries the index harness puts into the index
MaxBatch == 2       \* most passages of one index_documents call of the harness
Dim == 2            \* dimension of the stand-in Embedder's vectors
MaxQuestions == 2   \* the count of answered questions stops here
ParagraphLen == 601 \* length of a paragraph of the uploaded paper
MaxResponseLen == 2  \* longest enumerated answer of the grading harness
MaxTruthLen == 3     \* longest enumerated ground truth of the grading harness

(***************************************************************************)
(* Text helpers                                                            *)
(***************************************************************************)
Whitespace == {" ", "\n"}

\* str.strip(): leading and trailing whitespace removed
RECURSIVE lstrip(_)
lstrip(t) == IF t # <<>> /\ Head(t) \in Whitespace THEN lstrip(Tail(t)) ELSE t

RECURSIVE rstrip(_)
rstrip(t) ==
    IF t # <<>> /\ t[Len(t)] \in Whitespace THEN rstrip(SubSeq(t, 1, Len(t) - 1)) ELSE t

strip(t) == rstrip(lstrip(t))

\* whether pat occurs in text at 1-based position i
MatchAt(text, pat, i) ==
    /\ i >= 1
    /\ i + Len(pat) - 1 <= Len(text)
    /\ \A j \in 1..Len(pat) : text[i + j - 1] = pat[j]

\* 1-based position of the first occurrence of pat at or after from; 0 if none
FirstMatch(text, pat, from) ==
    IF \E i \in from..Len(text) : MatchAt(text, pat, i)
    THEN CHOOSE i \in from..Len(text) :
            MatchAt(text, pat, i) /\ \A j \in from..(i - 1) : ~MatchAt(text, pat, j)
    ELSE 0

\* str.find(pat, start): 0-based offset of the first occurrence at or after
\* start, -1 if there is none
find(text, pat, start) == FirstMatch(text, pat, start + 1) - 1

\* "".join(parts)
RECURSIVE concat(_)
concat(parts) == IF parts = <<>> THEN <<>> ELSE Head(parts) \o concat(Tail(parts))

(***************************************************************************)
(* RecursiveCharacterTextSplitter(chunk_size, chunk_overlap,               *)
(*                                add_start_index=True)                    *)
(* with its defaults: separators ["\n\n", "\n", " ", ""],                  *)
(* keep_separator=True, strip_whitespace=True, length_function=len.        *)
(***************************************************************************)
Separators == << <<"\n", "\n">>, <<"\n">>, <<" ">>, <<>> >>

\* re.split("(sep)", text) regrouped so that each separator stays at the head
\* of the piece that follows it
RECURSIVE SplitKeep(_, _, _, _)
SplitKeep(text, sep, cur, scan) ==
    LET m == FirstMatch(text, sep, scan)
    IN  IF m = 0
        THEN << SubSeq(text, cur, Len(text)) >>
        ELSE << SubSeq(text, cur, m - 1) >> \o SplitKeep(text, sep, m, m + Len(sep))

\* _split_text_with_regex(text, separator, keep_separator=True)
split_text_with_regex(text, sep) ==
    LET pieces == IF sep = <<>>
                  THEN [i \in 1..Len(text) |-> << text[i] >>]
                  ELSE SplitKeep(text, sep, 1, 1)
    IN  SelectSeq(pieces, LAMBDA s : s # <<>>)

\* _join_docs(docs, ""): joined and stripped; <<>> stands for None
join_docs(docs) == strip(concat(docs))

\* faulty variant of PopFront: the whole chunk is dropped, no overlap is carried over
PopFrontNoOverlap(current, total, len, cs, ov) == << <<>>, 0 >>

\* the while loop of _merge_splits: drop splits from the front of current_doc
RECURSIVE PopFront(_, _, _, _, _)
PopFront(current, total, len, cs, ov) ==
    IF total > ov \/ (total + len > cs /\ total > 0)
    THEN PopFront(Tail(current), total - Len(Head(current)), len, cs, ov)
    ELSE <<current, total>>

\* _merge_splits(splits, separator="") from split number i on
RECURSIVE MergeFrom(_, _, _, _, _, _)
MergeFrom(splits, i, current, total, cs, ov) ==
    IF i > Len(splits)
    THEN IF join_docs(current) = <<>> THEN <<>> ELSE << join_docs(current) >>
    ELSE LET d == splits[i]
             flush == total + Len(d) > cs /\ Len(current) > 0
             emitted == IF flush /\ join_docs(current) # <<>>
                        THEN << join_docs(current) >> ELSE <<>>
             kept == IF flush THEN PopFront(current, total, Len(d), cs, ov)
                     ELSE <<current, total>>
         IN  emitted \o MergeFrom(splits, i + 1, Append(kept[1], d),
                                  kept[2] + Len(d), cs, ov)

merge_splits(splits, cs, ov) == MergeFrom(splits, 1, <<>>, 0, cs, ov)

\* index of the separator _split_text picks: the first one that is "" or
\* occurs in the text
RECURSIVE PickSeparator(_, _, _)
PickSeparator(text, separators, i) ==
    IF i >= Len(separators) \/ separators[i] = <<>> \/ FirstMatch(text, separators[i], 1) # 0
    THEN i
    ELSE PickSeparator(text, separators, i + 1)

RECURSIVE split_text(_, _, _, _)
RECURSIVE WalkSplits(_, _, _, _, _, _)

\* the for loop of _split_text over the splits, from split number j on
WalkSplits(splits, j, good, new_separators, cs, ov) ==
    LET merged == IF good # <<>> THEN merge_splits(good, cs, ov) ELSE <<>>
    IN  IF j > Len(splits)
        THEN merged
        ELSE IF Len(splits[j]) < cs
             THEN WalkSplits(splits, j + 1, Append(good, splits[j]), new_separators, cs, ov)
             ELSE merged
                  \o (IF new_separators = <<>>
                      THEN << splits[j] >>
                      ELSE split_text(splits[j], new_separators, cs, ov))
                  \o WalkSplits(splits, j + 1, <<>>, new_separators, cs, ov)

\* RecursiveCharacterTextSplitter._split_text(text, separators)
split_text(text, separators, cs, ov) ==
    LET i == PickSeparator(text, separators, 1)
        separator == separators[i]
        new_separators == IF separator = <<>> THEN <<>>
                          ELSE SubSeq(separators, i + 1, Len(separators))
    IN  WalkSplits(split_text_with_regex(text, separator), 1, <<>>, new_separators, cs, ov)

\* faulty variant of StartIndices: the search for a chunk starts after the previous
\* chunk, the overlap is not subtracted
RECURSIVE StartIndicesPastOverlap(_, _, _, _, _, _)
StartIndicesPastOverlap(text, chunks, i, index, previous_chunk_len, ov) ==
    IF i > Len(chunks)
    THEN <<>>
    ELSE LET found == find(text, chunks[i], index + previous_chunk_len)
         IN  << [page_content |-> chunks[i], start_index |-> found] >>
             \o StartIndicesPastOverlap(text, chunks, i + 1, found, Len(chunks[i]), ov)

\* the add_start_index loop of TextSplitter.create_documents for one text
RECURSIVE StartIndices(_, _, _, _, _, _)
StartIndices(text, chunks, i, index, previous_chunk_len, ov) ==
    IF i > Len(chunks)
    THEN <<>>
    ELSE LET offset == index + previous_chunk_len - ov
             found == find(text, chunks[i], IF offset > 0 THEN offset ELSE 0)
         IN  << [page_content |-> chunks[i], start_index |-> found] >>
             \o StartIndices(text, chunks, i + 1, found, Len(chunks[i]), ov)

\* TextSplitter.create_documents([text]) with add_start_index=True
create_documents(text, cs, ov) ==
    StartIndices(text, split_text(text, Separators, cs, ov), 1, 0, 0, ov)

(***************************************************************************)
(* EMBEDDING_MODEL: the external Embedder.  Its stand-in is a bag-of-      *)
(* characters embedding, a fixed function of the text, with every count    *)
(* taken modulo 3: component 1 is the count of "a" minus that of "c",       *)
(* component 2 the count of "b", any further component the length.  d is   *)
(* the dimension the served model answers with.                            *)
(***************************************************************************)
Count(text, ch) == Cardinality({i \in 1..Len(text) : text[i] = ch}) % 3

Embedding(text, d) ==
    [j \in 1..d |-> IF j = 1 THEN Count(text, "a") - Count(text, "c")
                    ELSE IF j = 2 THEN Count(text, "b")
                    ELSE Len(text) % 3]

(***************************************************************************)
(* InMemoryVectorStore: the store is the sequence of its entries in        *)
(* insertion order (a dict keeps insertion order); an entry's id stands    *)
(* for its uuid key and is its insertion number.                           *)
(***************************************************************************)
DefaultK == 4       \* similarity_search(query) is called with its default k

\* faulty variant of add_documents: every passage is stored as soon as it is embedded
add_documents_incremental(store, chunks, d, failAt) ==
    LET n == IF failAt = 0 THEN Len(chunks) ELSE failAt - 1
    IN  [store |-> store \o [i \in 1..n |->
                      [id |-> Len(store) + i,
                       vector |-> Embedding(chunks[i].page_content, d),
                       page_content |-> chunks[i].page_content,
                       start_index |-> chunks[i].start_index]],
         raised |-> IF failAt = 0 THEN "none" ELSE "EmbeddingFailure"]

\* InMemoryVectorStore.add_documents(documents): all texts are embedded by one
\* embed_documents call, then every (document, vector) pair is stored.
\* failAt = 0: the embedding succeeds; failAt = i: it fails at passage i.
add_documents(store, chunks, d, failAt) ==
    IF failAt # 0
    THEN [store |-> store, raised |-> "EmbeddingFailure"]
    ELSE [store |-> store \o [i \in 1..Len(chunks) |->
                      [id |-> Len(store) + i,
                       vector |-> Embedding(chunks[i].page_content, d),
                       page_content |-> chunks[i].page_content,
                       start_index |-> chunks[i].start_index]],
          raised |-> "none"]

RECURSIVE DotFrom(_, _, _)
DotFrom(x, y, i) == IF i > Len(x) THEN 0 ELSE x[i] * y[i] + DotFrom(x, y, i + 1)

Dot(x, y) == DotFrom(x, y, 1)

\* cosine similarity of x and q as <<numerator, squared denominator>>:
\* x.q / sqrt(|x|^2 |q|^2); a zero norm gives nan or inf, which is set to 0.0
Similarity(x, q) ==
    IF Dot(x, x) * Dot(q, q) = 0 THEN <<0, 1>> ELSE <<Dot(x, q), Dot(x, x) * Dot(q, q)>>

SignedSquare(n) == IF n < 0 THEN -(n * n) ELSE n * n

\* a < b for similarities a, b
SimLess(a, b) == SignedSquare(a[1]) * b[2] < SignedSquare(b[1]) * a[2]

SimEqual(a, b) == ~SimLess(a, b) /\ ~SimLess(b, a)

\* numpy.argsort(sims): the indices in ascending order of similarity.  The
\* order of equal elements depends on the sort the NumPy build runs: "stable"
\* keeps them in index order, "reversed" stands for a build that does not.
argsort(sims, ties) ==
    LET n == Len(sims)
        Before(j, i) ==
            \/ SimLess(sims[j], sims[i])
            \/ /\ SimEqual(sims[j], sims[i])
               /\ IF ties = "stable" THEN j < i ELSE j > i
        Position(i) == 1 + Cardinality({j \in 1..n : j # i /\ Before(j, i)})
    IN  [p \in 1..n |-> CHOOSE i \in 1..n : Position(i) = p]

\* faulty variant of TopK: the ascending order is not reversed
TopKAscending(order, k) ==
    [p \in 1..(IF k < Len(order) THEN k ELSE Len(order)) |-> order[p]]

\* faulty variant of TopK: one result too few
TopKShort(order, k) ==
    [p \in 1..((IF k < Len(order) THEN k ELSE Len(order)) - 1) |->
        order[Len(order) - p + 1]]

\* order[::-1][:k]
TopK(order, k) ==
    [p \in 1..(IF k < Len(order) THEN k ELSE Len(order)) |-> order[Len(order) - p + 1]]

\* the Document returned for a stored entry
Document(entry) ==
    [id |-> entry.id, page_content |-> entry.page_content, start_index |-> entry.start_index]

\* InMemoryVectorStore.similarity_search_by_vector(embedding, k): the documents
\* returned, or the exception cosine_similarity raises on vectors of unequal
\* length
similarity_search_by_vector(store, q, k, ties) ==
    IF store = <<>>
    THEN [raised |-> "none", docs |-> <<>>]
    ELSE IF \E i \in 1..Len(store) : Len(store[i].vector) # Len(q)
         THEN [raised |-> "ValueError", docs |-> <<>>]
         ELSE LET sims == [i \in 1..Len(store) |-> Similarity(store[i].vector, q)]
                  top == TopK(argsort(sims, ties), k)
              IN  [raised |-> "none",
                   docs |-> [p \in 1..Len(top) |-> Document(store[top[p]])]]

(***************************************************************************)
(* Chunker harness: chunk one page text under one configuration            *)
(***************************************************************************)
Alphabet == {"a", "b", " ", "\n"}

RECURSIVE TextsUpTo(_)
TextsUpTo(n) ==
    IF n = 0 THEN {<<>>}
    ELSE LET S == TextsUpTo(n - 1)
         IN  S \cup {Append(t, ch) : t \in {u \in S : Len(u) = n - 1}, ch \in Alphabet}

\* the 25-character document of the specification's scenario
ScenarioDoc ==
    <<"A", "B", "C", "D", "E", "F", "G", "H", "I", "J", "K", "L", "M",
      "N", "O", "P", "Q", "R", "S", "T", "U", "V", "W", "X", "Y">>

\* the (text, chunk_size, chunk_overlap) inputs of the harness: every text up
\* to MaxDocLen under every valid configuration up to MaxChunk, and the
\* scenario document under chunk_size 10, chunk_overlap 3
ChunkInputs ==
    {<<t, cs, ov>> : t \in TextsUpTo(MaxDocLen), cs \in 1..MaxChunk, ov \in 0..(MaxChunk - 1)}
    \cup {<<ScenarioDoc, 10, 3>>, <<SubSeq(ScenarioDoc, 1, 17), 10, 3>>}

Chunk ==
    /\ ~c_done
    /\ c_done' = TRUE
    /\ c_out' = create_documents(c_doc, c_size, c_overlap)
    /\ UNCHANGED <<c_doc, c_size, c_overlap, indexVars, searchVars, appVars, gradeVars, ollamaVars, benchVars>>

(***************************************************************************)
(* Index harness: index_documents and similarity_search called in any      *)
(* order on one vector store                                               *)
(***************************************************************************)
Text(str) == CASE str = "a" -> <<"a">>
               [] str = "aa" -> <<"a", "a">>
               [] str = "b" -> <<"b">>
               [] str = "c" -> <<"c">>
               [] str = "ac" -> <<"a", "c">>
               [] str = "ab" -> <<"a", "b">>

PassageTexts == {Text("a"), Text("aa"), Text("b"), Text("c"), Text("ac")}
QueryTexts == {Text("a"), Text("ab")}

RECURSIVE SeqsUpTo(_, _)
SeqsUpTo(S, n) ==
    IF n = 0 THEN {<<>>}
    ELSE LET R == SeqsUpTo(S, n - 1)
         IN  R \cup {Append(t, x) : t \in {u \in R : Len(u) = n - 1}, x \in S}

\* the chunk lists the harness hands to index_documents
Batches ==
    {[i \in 1..Len(t) |-> [page_content |-> t[i], start_index |-> 0]] :
        t \in SeqsUpTo(PassageTexts, MaxBatch) \ {<<>>}}

NoSearch ==
    [query |-> <<>>, k |-> 0, embed_calls |-> 0, embed_failed |-> FALSE,
     raised |-> "none", docs |-> <<>>]

\* index_documents(document_chunks); the Embedder answers with dimension d
index_documents(document_chunks, d, failAt) ==
    /\ Len(DOCUMENT_VECTOR_DB) + Len(document_chunks) <= MaxEntries
    /\ LET r == add_documents(DOCUMENT_VECTOR_DB, document_chunks, d, failAt)
       IN  /\ DOCUMENT_VECTOR_DB' = r.store
           /\ s_raised' = r.raised
    /\ s_last' = NoSearch
    /\ s_repeated' = FALSE
    /\ UNCHANGED <<numpy_ties, chunkVars, appVars, gradeVars, ollamaVars, benchVars>>

\* faulty variant of Searched: a failed embed_query call is made once more
SearchedWithRetry(query, k, ok) ==
    LET r == similarity_search_by_vector(DOCUMENT_VECTOR_DB, Embedding(query, Dim),
                                         k, numpy_ties)
    IN  [query |-> query, k |-> k, embed_calls |-> IF ok THEN 1 ELSE 2,
         embed_failed |-> ~ok, raised |-> r.raised, docs |-> r.docs]

\* the record of a search: the calls it made to the Embedder (embed_query is
\* called once), whether the Embedder raised, and what the search returned
\* or raised
Searched(query, k, ok) ==
    IF ok
    THEN LET r == similarity_search_by_vector(DOCUMENT_VECTOR_DB, Embedding(query, Dim),
                                              k, numpy_ties)
         IN  [query |-> query, k |-> k, embed_calls |-> 1, embed_failed |-> FALSE,
              raised |-> r.raised, docs |-> r.docs]
    ELSE [query |-> query, k |-> k, embed_calls |-> 1, embed_failed |-> TRUE,
          raised |-> "EmbeddingFailure", docs |-> <<>>]

\* the search repeats the query and k of a search that returned
Repeats(query, k, ok) ==
    ok /\ s_last.k # 0 /\ s_last.raised = "none" /\ s_last.query = query /\ s_last.k = k

\* faulty variant of similarity_search: the entries returned are taken out of the store
similarity_search_consuming(query, k, ok) ==
    /\ s_last' = Searched(query, k, ok)
    /\ s_repeated' = Repeats(query, k, ok)
    /\ DOCUMENT_VECTOR_DB' =
          SelectSeq(DOCUMENT_VECTOR_DB,
                    LAMBDA e : \A p \in 1..Len(Searched(query, k, ok).docs) :
                                  Searched(query, k, ok).docs[p].id # e.id)
    /\ UNCHANGED <<numpy_ties, s_raised, chunkVars, appVars, gradeVars, ollamaVars, benchVars>>

\* DOCUMENT_VECTOR_DB.similarity_search(query, k): embed_query(query), then
\* similarity_search_by_vector.  ok: the Embedder call succeeds.
similarity_search(query, k, ok) ==
    /\ s_last' = Searched(query, k, ok)
    /\ s_repeated' = Repeats(query, k, ok)
    /\ UNCHANGED <<indexVars, s_raised, chunkVars, appVars, gradeVars, ollamaVars, benchVars>>

(***************************************************************************)
(* The document assistant (src/deepseek_RAG.py)                            *)
(***************************************************************************)
chunk_size == 1000
chunk_overlap == 200

\* the uploaded files and the page texts PDFPlumberLoader extracts from them
Rep(ch, n) == [i \in 1..n |-> ch]

Files == {"paper.pdf", "note.pdf", "scan.pdf"}

load_pdf_documents(file_path) ==
    CASE file_path = "paper.pdf" ->
            << Rep("a", ParagraphLen) \o <<"\n", "\n">> \o Rep("b", ParagraphLen),
               Rep("c", ParagraphLen) \o <<"\n">> >>
      [] file_path = "note.pdf" -> << <<"a", " ", "b", "\n">> >>
      [] file_path = "scan.pdf" -> << <<>> >>

\* text_processor.split_documents(raw_documents): the chunks of every page,
\* page after page
RECURSIVE chunk_documents(_)
chunk_documents(raw_documents) ==
    IF raw_documents = <<>>
    THEN <<>>
    ELSE create_documents(Head(raw_documents), chunk_size, chunk_overlap)
         \o chunk_documents(Tail(raw_documents))

\* find_related_documents(query), once the query is embedded
find_related_documents(query) ==
    similarity_search_by_vector(DOCUMENT_VECTOR_DB, Embedding(query, Dim),
                                DefaultK, numpy_ties)

\* PROMPT_TEMPLATE, cut at its two placeholders
TemplateHead ==
    "\nYou are an expert research assistant. Use the provided context to answer the query. \nIf unsure, state that you don't know. Be concise and factual (max 3 sentences).\n\nQuery: "
TemplateMiddle == " \nContext: "
TemplateTail == " \nAnswer:\n"

\* faulty variant of join_context: the passages are joined by a single newline
join_context_newline(texts) ==
    IF Len(texts) = 0 THEN <<>>
    ELSE texts[1] \o concat([i \in 1..(Len(texts) - 1) |-> <<"\n">> \o texts[i + 1]])

\* "\n\n".join(texts)
join_context(texts) ==
    IF Len(texts) = 0 THEN <<>>
    ELSE texts[1] \o concat([i \in 1..(Len(texts) - 1) |-> <<"\n", "\n">> \o texts[i + 1]])

\* context_text of generate_answer
context_text(context_documents) ==
    join_context([i \in 1..Len(context_documents) |-> context_documents[i].page_content])

\* ChatPromptTemplate.from_template(PROMPT_TEMPLATE) filled in: the template's
\* literal parts are one element each, the substituted texts follow character
\* by character
format_prompt(user_query_, document_context) ==
    <<TemplateHead>> \o user_query_ \o <<TemplateMiddle>> \o document_context
        \o <<TemplateTail>>

\* the questions typed into the chat input
Questions == {<<"a", "?">>, <<"b", " ", "c">>}

\* what LANGUAGE_MODEL may answer
GeneratorOutputs == {<<"y", "e", "s">>, <<" ", "n", "o", "\n">>}

\* the file uploader renders the chat input only after process_document
\* returned
IngestFailed == raised = "EmbeddingFailure" /\ calls = <<"ingest">>

\* --- user events: each one makes Streamlit run the script again ---

\* a file is uploaded (or replaced)
UploadFile(file) ==
    /\ pc = "idle"
    /\ pc' = "start"
    /\ uploaded_pdf' = file
    /\ user_input' = <<>>
    /\ first_ingest' = [done |-> FALSE, entries |-> <<>>]
    /\ answered' = 0
    /\ UNCHANGED <<calls, relevant_docs, prompt, llm_output, ai_response, raised,
                   indexVars, chunkVars, searchVars, gradeVars, ollamaVars, benchVars>>

\* a question is submitted through st.chat_input
SubmitQuestion(question) ==
    /\ pc = "idle"
    /\ uploaded_pdf # "none"
    /\ ~IngestFailed
    /\ pc' = "start"
    /\ user_input' = question
    /\ UNCHANGED <<uploaded_pdf, calls, relevant_docs, prompt, llm_output, ai_response,
                   raised, first_ingest, answered, indexVars, chunkVars, searchVars, gradeVars, ollamaVars, benchVars>>

\* the user asks Streamlit to rerun the script
Rerun ==
    /\ pc = "idle"
    /\ pc' = "start"
    /\ user_input' = <<>>
    /\ UNCHANGED <<uploaded_pdf, calls, relevant_docs, prompt, llm_output, ai_response,
                   raised, first_ingest, answered, indexVars, chunkVars, searchVars, gradeVars, ollamaVars, benchVars>>

\* --- one script run, top to bottom ---

\* faulty variant of NewVectorStore: the store of the previous run is kept
KeptVectorStore == DOCUMENT_VECTOR_DB

\* InMemoryVectorStore(EMBEDDING_MODEL): an empty store
NewVectorStore == <<>>

\* the module's top level: Streamlit executes the script in a fresh module,
\* so every run builds the constants and the vector store anew
ModuleTopLevel ==
    /\ pc = "start"
    /\ pc' = "main"
    /\ DOCUMENT_VECTOR_DB' = NewVectorStore
    /\ calls' = <<>>
    /\ relevant_docs' = <<>>
    /\ prompt' = <<>>
    /\ llm_output' = <<>>
    /\ ai_response' = <<>>
    /\ raised' = "none"
    /\ UNCHANGED <<uploaded_pdf, user_input, first_ingest, answered, numpy_ties,
                   chunkVars, searchVars, gradeVars, ollamaVars, benchVars>>

\* main() up to "if uploaded_pdf:" with no file: the run ends
MainNoFile ==
    /\ pc = "main"
    /\ uploaded_pdf = "none"
    /\ pc' = "idle"
    /\ UNCHANGED <<uploaded_pdf, user_input, calls, relevant_docs, prompt, llm_output,
                   ai_response, raised, first_ingest, answered, indexVars, chunkVars,
                   searchVars, gradeVars, ollamaVars, benchVars>>

\* process_document(uploaded_pdf): load, chunk, index.  failAt: the passage at
\* which the Embedder fails (0: it does not; on an empty batch 1 stands for a
\* failure of the call).  An exception ends the script run.
process_document(failAt) ==
    /\ pc = "main"
    /\ uploaded_pdf # "none"
    /\ LET processed_chunks == chunk_documents(load_pdf_documents(uploaded_pdf))
           r == add_documents(DOCUMENT_VECTOR_DB, processed_chunks, Dim, failAt)
       IN  /\ failAt <= (IF Len(processed_chunks) = 0 THEN 1 ELSE Len(processed_chunks))
           /\ DOCUMENT_VECTOR_DB' = r.store
           /\ raised' = r.raised
           /\ pc' = IF r.raised = "none" THEN "chat" ELSE "idle"
           /\ first_ingest' = IF r.raised = "none" /\ ~first_ingest.done
                              THEN [done |-> TRUE, entries |-> r.store]
                              ELSE first_ingest
    /\ calls' = Append(calls, "ingest")
    /\ UNCHANGED <<uploaded_pdf, user_input, relevant_docs, prompt, llm_output,
                   ai_response, answered, numpy_ties, chunkVars, searchVars, gradeVars, ollamaVars, benchVars>>

\* "if user_input:" with no question: the run ends
ChatNoQuestion ==
    /\ pc = "chat"
    /\ user_input = <<>>
    /\ pc' = "idle"
    /\ UNCHANGED <<uploaded_pdf, user_input, calls, relevant_docs, prompt, llm_output,
                   ai_response, raised, first_ingest, answered, indexVars, chunkVars,
                   searchVars, gradeVars, ollamaVars, benchVars>>

\* relevant_docs = find_related_documents(user_input).  ok: the Embedder call
\* for the query succeeds.
Retrieve(ok) ==
    /\ pc = "chat"
    /\ user_input # <<>>
    /\ calls' = Append(calls, "retrieve")
    /\ IF ok /\ find_related_documents(user_input).raised = "none"
       THEN /\ relevant_docs' = find_related_documents(user_input).docs
            /\ raised' = "none"
            /\ pc' = "generate"
       ELSE /\ relevant_docs' = <<>>
            /\ raised' = IF ok THEN find_related_documents(user_input).raised
                         ELSE "EmbeddingFailure"
            /\ pc' = "idle"
    /\ UNCHANGED <<uploaded_pdf, user_input, prompt, llm_output, ai_response,
                   first_ingest, answered, indexVars, chunkVars, searchVars, gradeVars, ollamaVars, benchVars>>

\* faulty variant of generate_answer: a failed Generator call is made once more
generate_answer_retry(out) ==
    /\ pc = "generate"
    /\ prompt' = format_prompt(user_input, context_text(relevant_docs))
    /\ calls' = IF out = <<>>
                THEN calls \o <<"assemble", "generate", "generate">>
                ELSE calls \o <<"assemble", "generate">>
    /\ llm_output' = IF out = <<>> THEN <<"y", "e", "s">> ELSE out
    /\ ai_response' = llm_output'
    /\ raised' = "none"
    /\ answered' = IF answered < MaxQuestions THEN answered + 1 ELSE answered
    /\ pc' = "idle"
    /\ UNCHANGED <<uploaded_pdf, user_input, relevant_docs, first_ingest, indexVars,
                   chunkVars, searchVars, gradeVars, ollamaVars, benchVars>>

\* ai_response = generate_answer(user_input, relevant_docs), then written to
\* the chat.  out: what LANGUAGE_MODEL returns (<<>>: the call fails).
generate_answer(out) ==
    /\ pc = "generate"
    /\ prompt' = format_prompt(user_input, context_text(relevant_docs))
    /\ calls' = calls \o <<"assemble", "generate">>
    /\ llm_output' = out
    /\ ai_response' = out
    /\ raised' = IF out = <<>> THEN "GenerationFailure" ELSE "none"
    /\ answered' = IF out # <<>> /\ answered < MaxQuestions THEN answered + 1 ELSE answered
    /\ pc' = "idle"
    /\ UNCHANGED <<uploaded_pdf, user_input, relevant_docs, first_ingest, indexVars,
                   chunkVars, searchVars, gradeVars, ollamaVars, benchVars>>

(***************************************************************************)
(* The puzzle benchmarks                                                   *)
(* (src/benchmark-npr-sunday-puzzle-challenge-gpt4omini.py,                *)
(*  src/deepseek-R1-7B-benchmark-test.py)                                  *)
(*                                                                         *)
(* A Python value that is a string or None is a record: none tells         *)
(* whether it is None, text is the string.                                 *)
(***************************************************************************)
None == [none |-> TRUE, text |-> <<>>]

Str(t) == [none |-> FALSE, text |-> t]

\* not x, for x a string or None
Falsy(x) == x.none \/ x.text = <<>>

\* str.lower(): every capital letter replaced by its small one
Capitals ==
    <<"A", "B", "C", "D", "E", "F", "G", "H", "I", "J", "K", "L", "M",
      "N", "O", "P", "Q", "R", "S", "T", "U", "V", "W", "X", "Y", "Z">>

Smalls ==
    <<"a", "b", "c", "d", "e", "f", "g", "h", "i", "j", "k", "l", "m",
      "n", "o", "p", "q", "r", "s", "t", "u", "v", "w", "x", "y", "z">>

lower(t) ==
    [i \in 1..Len(t) |->
        IF \E n \in 1..Len(Capitals) : Capitals[n] = t[i]
        THEN Smalls[CHOOSE n \in 1..Len(Capitals) : Capitals[n] = t[i]]
        ELSE t[i]]

\* str.split(sep) for a one-character sep: the pieces between the
\* occurrences of sep, empty pieces included
RECURSIVE split(_, _)
split(t, sep) ==
    IF FirstMatch(t, <<sep>>, 1) = 0
    THEN <<t>>
    ELSE <<SubSeq(t, 1, FirstMatch(t, <<sep>>, 1) - 1)>>
         \o split(SubSeq(t, FirstMatch(t, <<sep>>, 1) + 1, Len(t)), sep)

\* pat in text
In(pat, text) == \E i \in 1..(Len(text) + 1) : MatchAt(text, pat, i)

\* faulty variant of analyze_response: one phrase found is enough
analyze_response_any(response, ground_truth) ==
    IF Falsy(response) \/ Falsy(ground_truth)
    THEN FALSE
    ELSE LET response_ == strip(lower(response.text))
             ground_truth_ == strip(lower(ground_truth.text))
             phrases == split(ground_truth_, ";")
         IN  \E i \in 1..Len(phrases) : In(strip(phrases[i]), response_)

\* analyze_response of the hosted-API benchmark
analyze_response(response, ground_truth) ==
    IF Falsy(response) \/ Falsy(ground_truth)
    THEN FALSE
    ELSE LET response_ == strip(lower(response.text))
             ground_truth_ == strip(lower(ground_truth.text))
             phrases == split(ground_truth_, ";")
         IN  \A i \in 1..Len(phrases) : In(strip(phrases[i]), response_)

\* analyze_response of the local-server benchmark
deepseek_analyze_response(response, ground_truth) ==
    IF Falsy(response) \/ Falsy(ground_truth)
    THEN FALSE
    ELSE LET response_ == strip(lower(response.text))
             ground_truth_ == strip(lower(ground_truth.text))
             phrases == split(ground_truth_, ";")
         IN  \A i \in 1..Len(phrases) : In(strip(phrases[i]), response_)

\* the characters of the grading harness
GradeAlphabet == {"A", "a", "b", ";", " "}

\* None and every string over GradeAlphabet up to length n
RECURSIVE GradeTextsUpTo(_)
GradeTextsUpTo(n) ==
    IF n = 0 THEN {<<>>}
    ELSE GradeTextsUpTo(n - 1)
         \cup {Append(t, ch) : t \in {u \in GradeTextsUpTo(n - 1) : Len(u) = n - 1},
                               ch \in GradeAlphabet}

Responses == {None} \cup {Str(t) : t \in GradeTextsUpTo(MaxResponseLen)}

GroundTruths == {None} \cup {Str(t) : t \in GradeTextsUpTo(MaxTruthLen)}

\* both benchmarks grade the answer
Analyze ==
    /\ ~g_done
    /\ g_done' = TRUE
    /\ g_correct' = analyze_response(g_response, g_ground_truth)
    /\ g_correct_local' = deepseek_analyze_response(g_response, g_ground_truth)
    /\ UNCHANGED <<g_response, g_ground_truth, chunkVars, indexVars, searchVars, appVars, ollamaVars, benchVars>>

(***************************************************************************)
(* The parameter playground                                                *)
(* (src/ollama_hyperparameter_tuning_playground.py)                        *)
(*                                                                         *)
(* A dictionary is a function from its keys.  A value is a record: none    *)
(* tells whether it is None, num is the number.                            *)
(***************************************************************************)
NoneValue == [none |-> TRUE, num |-> 0]

Num(n) == [none |-> FALSE, num |-> n]

\* {}
EmptyDict == [key \in {} |-> NoneValue]

\* d.get(key)
get(d, key) == IF key \in DOMAIN d THEN d[key] ELSE NoneValue

\* d[key] = value
setitem(d, key, value) ==
    [x \in DOMAIN d \cup {key} |-> IF x = key THEN value ELSE d[x]]

\* faulty variant of create_ollama_config: a parameter is taken when it is truthy
create_ollama_config_truthy(params) ==
    LET Take(config, key) ==
            IF ~get(params, key).none /\ get(params, key).num # 0
            THEN setitem(config, key, params[key]) ELSE config
        c1 == Take(EmptyDict, "temperature")
        c2 == Take(c1, "num_ctx")
        c3 == Take(c2, "repeat_penalty")
        c4 == Take(c3, "repeat_last_n")
        c5 == Take(c4, "top_k")
        c6 == Take(c5, "top_p")
        c7 == IF ~get(params, "seed").none /\ params["seed"].num # -1
              THEN setitem(c6, "seed", params["seed"]) ELSE c6
    IN  [config |-> c7, params |-> params]

\* create_ollama_config(params): the dictionary returned, and params as the
\* call leaves it
create_ollama_config(params) ==
    LET Take(config, key) ==
            IF ~get(params, key).none
            THEN setitem(config, key, params[key]) ELSE config
        c1 == Take(EmptyDict, "temperature")
        c2 == Take(c1, "num_ctx")
        c3 == Take(c2, "repeat_penalty")
        c4 == Take(c3, "repeat_last_n")
        c5 == Take(c4, "top_k")
        c6 == Take(c5, "top_p")
        c7 == IF ~get(params, "seed").none /\ params["seed"].num # -1
              THEN setitem(c6, "seed", params["seed"]) ELSE c6
    IN  [config |-> c7, params |-> params]

\* the keys create_ollama_config reads, seed apart
SliderKeys == {"temperature", "num_ctx", "repeat_penalty", "repeat_last_n", "top_k", "top_p"}

\* the values of the harness: None, the least value of a slider, another one
SliderValues == {NoneValue, Num(0), Num(1)}

\* the seed of the harness: None, -1 ("random"), 0, another one
SeedValues == {NoneValue, Num(-1), Num(0), Num(1)}

\* the dictionaries of the harness: any of the keys present or absent, and
\* a key create_ollama_config does not read
ParamDicts ==
    {sliders @@ seed @@ other :
        sliders \in UNION {[D -> SliderValues] : D \in SUBSET SliderKeys},
        seed \in {EmptyDict} \cup {"seed" :> v : v \in SeedValues},
        other \in {EmptyDict, "model" :> Num(1)}}

CreateConfig ==
    /\ ~o_done
    /\ o_done' = TRUE
    /\ o_config' = create_ollama_config(o_params).config
    /\ o_params_after' = create_ollama_config(o_params).params
    /\ UNCHANGED <<o_params, chunkVars, indexVars, searchVars, appVars, gradeVars, benchVars>>

(***************************************************************************)
(* The benchmark applications: one Streamlit session of the hosted-API     *)
(* benchmark or of the local-server benchmark                              *)
(***************************************************************************)
\* test_cases of the hosted-API benchmark
test_cases ==
       "Continent Puzzle" :>
          [category |-> "General Knowledge",
           challenge |->
              "Think of a well-known category with exactly 7 things in it. Alphabetize the things from their ending letters, and the last letter alphabetically will be E. In other words, no thing in this category ends in a letter after E in the alphabet. It's a category and set of 7 things that everyone knows. What is it?",
           ground_truth |->
              <<"C", "o", "n", "t", "i", "n", "e", "n", "t", "s">>,
           difficulty |-> "Medium",
           reasoning_required |-> "Category identification, alphabetical analysis"]
    @@ "NONUNION Puzzle" :>
          [category |-> "Word Play",
           challenge |->
              "The word NONUNION has four N's and no other consonant. What famous American of the past - first and last names, 8 letters in all - has four instances of the same consonant and no other consonant?",
           ground_truth |->
              <<"E", "l", "i", " ", "L", "i", "l", "l", "y">>,
           difficulty |-> "Hard",
           reasoning_required |-> "Pattern matching, historical knowledge"]
    @@ "Wild Wild West Movie" :>
          [category |-> "Entertainment",
           challenge |->
              "The film Wild Wild West had three W's as its initials. What prominent film of 2013 had two W's as its initials?",
           ground_truth |->
              <<"T", "h", "e", " ", "W", "o", "l", "f", " ", "O", "f", " ", "W", "a",
                "l", "l", " ", "S", "t", "r", "e", "e", "t">>,
           difficulty |-> "Medium",
           reasoning_required |-> "Movie knowledge, pattern recognition"]
    @@ "Hidden Planets" :>
          [category |-> "Word Play",
           challenge |->
              "These four words have a very interesting and unusual property in common - something hidden in them. What is it? NEANDERTHAL EMBARRASS SATURATION CONTEMPTUOUSNESS",
           ground_truth |->
              <<"E", "a", "c", "h", " ", "w", "o", "r", "d", " ", "c", "o", "n", "c",
                "e", "a", "l", "s", " ", "t", "h", "e", " ", "n", "a", "m", "e", " ",
                "o", "f", " ", "a", " ", "p", "l", "a", "n", "e", "t", " ", "i", "n",
                " ", "l", "e", "f", "t", " ", "t", "o", " ", "r", "i", "g", "h", "t",
                " ", "o", "r", "d", "e", "r", " ", "(", "E", "a", "r", "t", "h", ",",
                " ", "M", "a", "r", "s", ",", " ", "S", "a", "t", "u", "r", "n", ",",
                " ", "N", "e", "p", "t", "u", "n", "e", ")">>,
           difficulty |-> "Hard",
           reasoning_required |-> "Pattern recognition, astronomy knowledge"]
    @@ "Syllable Change" :>
          [category |-> "Word Play",
           challenge |->
              "Think of a familiar five-letter word in two syllables. Change the middle letter to the preceding letter of the alphabet, and you'll get a familiar five-letter word in three syllables. What words are these?",
           ground_truth |->
              <<"p", "e", "n", "n", "e", " ", "a", "n", "d", " ", "p", "e", "n", "n",
                "é">>,
           difficulty |-> "Hard",
           reasoning_required |-> "Vocabulary, phonetics"]
    @@ "Letter I Challenge" :>
          [category |-> "Word Play",
           challenge |->
              "Think of an 8-letter word with three syllables that contains the letter 'I' in each syllable but, strangely, doesn't contain a single 'I' sound, either long or short. The answer is not a plural. What word is it?",
           ground_truth |->
              <<"D", "a", "i", "q", "u", "i", "r", "i">>,
           difficulty |-> "Hard",
           reasoning_required |-> "Phonetics, vocabulary"]
    @@ "City Letters" :>
          [category |-> "Geography",
           challenge |->
              "The city UTICA, NEW YORK contains 12 letters, all different. Name a well-known U.S. city that contains 13 different letters when spelled out.",
           ground_truth |->
              <<"C", "a", "s", "p", "e", "r", ",", " ", "W", "y", "o", "m", "i", "n",
                "g", ";", " ", "B", "i", "g", " ", "F", "l", "a", "t", "s", ",", " ",
                "N", "e", "w", " ", "Y", "o", "r", "k", ";", " ", "B", "u", "c", "k",
                "s", "p", "o", "r", "t", ",", " ", "M", "a", "i", "n", "e", ";", " ",
                "L", "y", "n", "c", "h", "b", "u", "r", "g", ",", " ", "T", "e", "x",
                "a", "s">>,
           difficulty |-> "Hard",
           reasoning_required |-> "Geography knowledge, letter counting"]
    @@ "Food Word Transform" :>
          [category |-> "Word Play",
           challenge |->
              "Name a food item in seven letters. Move the first letter to the fifth position and you'll get two words that are synonyms. What are they?",
           ground_truth |->
              <<"B", "r", "i", "s", "k", "e", "t", " ", "-", "-", ">", " ", "r", "i",
                "s", "k", ",", " ", "b", "e", "t">>,
           difficulty |-> "Hard",
           reasoning_required |-> "Vocabulary, word manipulation"]

\* list(test_cases.keys()) of the hosted-API benchmark (a dict keeps its
\* insertion order)
test_cases_keys ==
    <<"Continent Puzzle",
      "NONUNION Puzzle",
      "Wild Wild West Movie",
      "Hidden Planets",
      "Syllable Change",
      "Letter I Challenge",
      "City Letters",
      "Food Word Transform">>

\* test_cases of the local-server benchmark
deepseek_test_cases ==
       "Continent Puzzle" :>
          [category |-> "General Knowledge",
           challenge |->
              "Think of a well-known category with exactly 7 things in it. Alphabetize the things from their ending letters, and the last letter alphabetically will be E. What is it?",
           ground_truth |->
              <<"C", "o", "n", "t", "i", "n", "e", "n", "t", "s">>,
           difficulty |-> "Medium",
           reasoning_required |-> "Category identification, alphabetical analysis"]
    @@ "NONUNION Puzzle" :>
          [category |-> "Word Play",
           challenge |->
              "The word NONUNION has four N's and no other consonant. What famous American of the past - first and last names, 8 letters in all - has four instances of the same consonant and no other consonant?",
           ground_truth |->
              <<"E", "l", "i", " ", "L", "i", "l", "l", "y">>,
           difficulty |-> "Hard",
           reasoning_required |-> "Pattern matching, historical knowledge"]

\* list(test_cases.keys()) of the local-server benchmark
deepseek_test_cases_keys ==
    <<"Continent Puzzle",
      "NONUNION Puzzle">>

\* the applications
Apps == {"hosted", "local"}

\* test_cases in the application app
CasesOf(app) == IF app = "hosted" THEN test_cases ELSE deepseek_test_cases

\* the options of the two multiselect filters and of the radio
DifficultyOptions == {"Easy", "Medium", "Hard"}

CategoryOptions == {"General Knowledge", "Word Play", "Geography", "Entertainment"}

InputTypes == {"Sample Puzzle", "Custom Puzzle"}

\* st.selectbox returns None when it has no option
NoPuzzle == "None"

\* the keys of filtered_puzzles, in the order of test_cases: the puzzles
\* whose difficulty and category are among the selected ones
filtered_puzzles(d, c) ==
    SelectSeq(test_cases_keys,
              LAMBDA k : test_cases[k].difficulty \in d /\ test_cases[k].category \in c)

\* the options of the "Select a puzzle:" selectbox
selectbox_options(app, d, c) ==
    IF app = "hosted" THEN filtered_puzzles(d, c) ELSE deepseek_test_cases_keys

Range(seq) == {seq[i] : i \in 1..Len(seq)}

\* what the server does with a completion request, and what
\* get_model_response makes of it
HostedOutcomeKinds == {"raises", "content_none", "content"}

LocalOutcomeKinds == {"raises", "status_500", "bad_json", "content"}

\* the contents a completion can have
ResponseTexts ==
    {<<>>,
     <<"c", "o", "n", "t", "i", "n", "e", "n", "t", "s">>,
     <<"E", "l", "i", " ", "L", "i", "l", "l", "y", ".">>,
     <<"2">>}

OutcomesOf(app) ==
    {[kind |-> k, content |-> <<>>] :
        k \in (IF app = "hosted" THEN HostedOutcomeKinds ELSE LocalOutcomeKinds) \ {"content"}}
    \cup {[kind |-> "content", content |-> t] : t \in ResponseTexts}

NoOutcome == [kind |-> "none", content |-> <<>>]

\* faulty variant of get_model_response: the exception of the request is not caught
get_model_response_uncaught(outcome) ==
    CASE outcome.kind = "raises" -> [raised |-> "APIError", value |-> None]
      [] outcome.kind = "content_none" -> [raised |-> "none", value |-> None]
      [] OTHER -> [raised |-> "none", value |-> Str(outcome.content)]

\* get_model_response of the hosted-API benchmark: the message content, or
\* None when client.chat.completions.create raised (the content itself can
\* be None)
get_model_response(outcome) ==
    CASE outcome.kind = "raises" -> [raised |-> "none", value |-> None]
      [] outcome.kind = "content_none" -> [raised |-> "none", value |-> None]
      [] OTHER -> [raised |-> "none", value |-> Str(outcome.content)]

\* get_model_response of the local-server benchmark: the message content
\* when the status is 200, None when requests.post raised, when the status
\* is not 200 and when reading the body raised
deepseek_get_model_response(outcome) ==
    CASE outcome.kind = "raises" -> [raised |-> "none", value |-> None]
      [] outcome.kind = "status_500" -> [raised |-> "none", value |-> None]
      [] outcome.kind = "bad_json" -> [raised |-> "none", value |-> None]
      [] OTHER -> [raised |-> "none", value |-> Str(outcome.content)]

\* what the user can type into the two fields of a custom puzzle
CustomPuzzles == {"", "What is 1 + 1?"}

CustomTruths == {<<>>, <<"2">>}

\* a sidebar filter is changed (hosted-API benchmark)
SetDifficulty(d) ==
    /\ b_pc = "idle"
    /\ b_app = "hosted"
    /\ d # difficulty
    /\ difficulty' = d
    /\ clicked' = FALSE
    /\ b_pc' = "run"
    /\ UNCHANGED <<b_app, category, input_type, rendered, options, selected_puzzle, puzzle,
                   b_ground_truth, b_calls, b_outcome, b_connected, b_response, b_result,
                   b_raised, chunkVars, indexVars, searchVars, appVars, gradeVars,
                   ollamaVars>>

SetCategory(c) ==
    /\ b_pc = "idle"
    /\ b_app = "hosted"
    /\ c # category
    /\ category' = c
    /\ clicked' = FALSE
    /\ b_pc' = "run"
    /\ UNCHANGED <<b_app, difficulty, input_type, rendered, options, selected_puzzle, puzzle,
                   b_ground_truth, b_calls, b_outcome, b_connected, b_response, b_result,
                   b_raised, chunkVars, indexVars, searchVars, appVars, gradeVars,
                   ollamaVars>>

\* the radio "Choose input type:" is changed
ChooseInputType(t) ==
    /\ b_pc = "idle"
    /\ t # input_type
    /\ input_type' = t
    /\ clicked' = FALSE
    /\ b_pc' = "run"
    /\ UNCHANGED <<b_app, difficulty, category, rendered, options, selected_puzzle, puzzle,
                   b_ground_truth, b_calls, b_outcome, b_connected, b_response, b_result,
                   b_raised, chunkVars, indexVars, searchVars, appVars, gradeVars,
                   ollamaVars>>

\* another option of the selectbox is chosen
SelectPuzzle(name) ==
    /\ b_pc = "idle"
    /\ rendered = "Sample Puzzle"
    /\ name \in Range(options)
    /\ name # selected_puzzle
    /\ selected_puzzle' = name
    /\ clicked' = FALSE
    /\ b_pc' = "run"
    /\ UNCHANGED <<b_app, difficulty, category, input_type, rendered, options, puzzle,
                   b_ground_truth, b_calls, b_outcome, b_connected, b_response, b_result,
                   b_raised, chunkVars, indexVars, searchVars, appVars, gradeVars,
                   ollamaVars>>

\* the two fields of a custom puzzle are filled in
EnterCustom(text, answer) ==
    /\ b_pc = "idle"
    /\ rendered = "Custom Puzzle"
    /\ <<text, answer>> # <<puzzle, b_ground_truth>>
    /\ puzzle' = text
    /\ b_ground_truth' = answer
    /\ clicked' = FALSE
    /\ b_pc' = "run"
    /\ UNCHANGED <<b_app, difficulty, category, input_type, rendered, options,
                   selected_puzzle, b_calls, b_outcome, b_connected, b_response, b_result,
                   b_raised, chunkVars, indexVars, searchVars, appVars, gradeVars,
                   ollamaVars>>

\* the button "Test Model" is clicked; it is there when the last run of the
\* script got as far as the button
ClickTestModel ==
    /\ b_pc = "idle"
    /\ b_raised = "none"
    /\ rendered # "none"
    /\ clicked' = TRUE
    /\ b_pc' = "run"
    /\ UNCHANGED <<b_app, difficulty, category, input_type, rendered, options,
                   selected_puzzle, puzzle, b_ground_truth, b_calls, b_outcome, b_connected,
                   b_response, b_result, b_raised, chunkVars, indexVars, searchVars,
                   appVars, gradeVars, ollamaVars>>

\* the value st.selectbox returns in this run: None without options; the
\* option chosen before, when the selectbox was shown with the same options
\* in the last run; the first option otherwise
selectbox(opts) ==
    IF opts = <<>> THEN NoPuzzle
    ELSE IF rendered = "Sample Puzzle" /\ opts = options /\ selected_puzzle \in Range(opts)
         THEN selected_puzzle
         ELSE opts[1]

\* a run of the script down to the button: the "Puzzle Selection" column.
\* In Sample Puzzle mode the look-up of the selected puzzle raises KeyError
\* when the selectbox returned None.
PuzzleSelection ==
    /\ b_pc = "run"
    /\ rendered' = input_type
    /\ b_calls' = <<>>
    /\ b_outcome' = NoOutcome
    /\ b_connected' = FALSE
    /\ b_response' = None
    /\ b_result' = "none"
    /\ IF input_type = "Sample Puzzle"
       THEN LET opts == selectbox_options(b_app, difficulty, category)
            IN  /\ options' = opts
                /\ selected_puzzle' = selectbox(opts)
                /\ IF selectbox(opts) \in Range(opts)
                   THEN /\ puzzle' = CasesOf(b_app)[selectbox(opts)].challenge
                        /\ b_ground_truth' = CasesOf(b_app)[selectbox(opts)].ground_truth
                        /\ b_raised' = "none"
                        /\ b_pc' = IF clicked THEN "clicked" ELSE "idle"
                   ELSE /\ puzzle' = ""
                        /\ b_ground_truth' = <<>>
                        /\ b_raised' = "KeyError"
                        /\ b_pc' = "idle"
       ELSE /\ options' = <<>>
            /\ selected_puzzle' = NoPuzzle
            /\ IF rendered = "Custom Puzzle"
               THEN UNCHANGED <<puzzle, b_ground_truth>>
               ELSE puzzle' = "" /\ b_ground_truth' = <<>>
            /\ b_raised' = "none"
            /\ b_pc' = IF clicked THEN "clicked" ELSE "idle"
    /\ UNCHANGED <<b_app, difficulty, category, input_type, clicked, chunkVars, indexVars,
                   searchVars, appVars, gradeVars, ollamaVars>>

\* the handler of "Test Model", first step: initialize_openai_client()
\* (ok: OPENAI_API_KEY is set) resp. initialize_deepseek_client() (ok: the
\* server answered the models request with status 200).  The hosted-API
\* benchmark goes on when it has a client and the puzzle is not empty.
ConnectionCheck(ok) ==
    /\ b_pc = "clicked"
    /\ b_calls' = Append(b_calls, "connect")
    /\ b_connected' = ok
    /\ b_pc' = IF ok /\ (b_app = "local" \/ puzzle # "") THEN "request" ELSE "idle"
    /\ UNCHANGED <<b_app, difficulty, category, input_type, rendered, clicked, options,
                   selected_puzzle, puzzle, b_ground_truth, b_outcome, b_response, b_result,
                   b_raised, chunkVars, indexVars, searchVars, appVars, gradeVars,
                   ollamaVars>>

\* response = get_model_response(...)
Request(outcome) ==
    /\ b_pc = "request"
    /\ b_calls' = Append(b_calls, "request")
    /\ b_outcome' = outcome
    /\ LET r == IF b_app = "hosted" THEN get_model_response(outcome)
                ELSE deepseek_get_model_response(outcome)
       IN  /\ b_response' = r.value
           /\ b_raised' = r.raised
           /\ b_pc' = IF r.raised = "none" THEN "respond" ELSE "idle"
    /\ UNCHANGED <<b_app, difficulty, category, input_type, rendered, clicked, options,
                   selected_puzzle, puzzle, b_ground_truth, b_connected, b_result,
                   chunkVars, indexVars, searchVars, appVars, gradeVars, ollamaVars>>

\* if response: the answer is shown and graded, the Result metric is shown
Respond ==
    /\ b_pc = "respond"
    /\ IF ~Falsy(b_response)
       THEN /\ b_calls' = Append(b_calls, "grade")
            /\ b_result' = IF IF b_app = "hosted"
                               THEN analyze_response(b_response, Str(b_ground_truth))
                               ELSE deepseek_analyze_response(b_response, Str(b_ground_truth))
                            THEN "Correct" ELSE "Incorrect"
       ELSE UNCHANGED <<b_calls, b_result>>
    /\ b_pc' = "idle"
    /\ UNCHANGED <<b_app, difficulty, category, input_type, rendered, clicked, options,
                   selected_puzzle, puzzle, b_ground_truth, b_outcome, b_connected, b_response,
                   b_raised, chunkVars, indexVars, searchVars, appVars, gradeVars,
                   ollamaVars>>

(***************************************************************************)
(* Specifications                                                          *)
(***************************************************************************)
InitChunk ==
    /\ \E in \in ChunkInputs :
          /\ in[3] < in[2]
          /\ c_doc = in[1]
          /\ c_size = in[2]
          /\ c_overlap = in[3]
    /\ c_done = FALSE
    /\ c_out = <<>>
    /\ DOCUMENT_VECTOR_DB = <<>>
    /\ numpy_ties = "stable"
    /\ s_raised = "none"
    /\ s_last = NoSearch
    /\ s_repeated = FALSE
    /\ pc = "idle"
    /\ uploaded_pdf = "none"
    /\ user_input = <<>>
    /\ calls = <<>>
    /\ relevant_docs = <<>>
    /\ prompt = <<>>
    /\ llm_output = <<>>
    /\ ai_response = <<>>
    /\ raised = "none"
    /\ first_ingest = [done |-> FALSE, entries |-> <<>>]
    /\ answered = 0
    /\ g_response = None
    /\ g_ground_truth = None
    /\ g_done = FALSE
    /\ g_correct = FALSE
    /\ g_correct_local = FALSE
    /\ o_params = EmptyDict
    /\ o_done = FALSE
    /\ o_config = EmptyDict
    /\ o_params_after = EmptyDict
    /\ b_app = "hosted"
    /\ b_pc = "idle"
    /\ difficulty = {"Medium", "Hard"}
    /\ category = {"General Knowledge", "Word Play"}
    /\ input_type = "Sample Puzzle"
    /\ rendered = "none"
    /\ clicked = FALSE
    /\ options = <<>>
    /\ selected_puzzle = NoPuzzle
    /\ puzzle = ""
    /\ b_ground_truth = <<>>
    /\ b_calls = <<>>
    /\ b_outcome = NoOutcome
    /\ b_connected = FALSE
    /\ b_response = None
    /\ b_result = "none"
    /\ b_raised = "none"

NextChunk == Chunk

SpecChunk == InitChunk /\ [][NextChunk]_vars

InitIndex ==
    /\ c_doc = <<>>
    /\ c_size = 1
    /\ c_overlap = 0
    /\ c_done = FALSE
    /\ c_out = <<>>
    /\ DOCUMENT_VECTOR_DB = <<>>
    /\ numpy_ties \in {"stable", "reversed"}
    /\ s_raised = "none"
    /\ s_last = NoSearch
    /\ s_repeated = FALSE
    /\ pc = "idle"
    /\ uploaded_pdf = "none"
    /\ user_input = <<>>
    /\ calls = <<>>
    /\ relevant_docs = <<>>
    /\ prompt = <<>>
    /\ llm_output = <<>>
    /\ ai_response = <<>>
    /\ raised = "none"
    /\ first_ingest = [done |-> FALSE, entries |-> <<>>]
    /\ answered = 0
    /\ g_response = None
    /\ g_ground_truth = None
    /\ g_done = FALSE
    /\ g_correct = FALSE
    /\ g_correct_local = FALSE
    /\ o_params = EmptyDict
    /\ o_done = FALSE
    /\ o_config = EmptyDict
    /\ o_params_after = EmptyDict
    /\ b_app = "hosted"
    /\ b_pc = "idle"
    /\ difficulty = {"Medium", "Hard"}
    /\ category = {"General Knowledge", "Word Play"}
    /\ input_type = "Sample Puzzle"
    /\ rendered = "none"
    /\ clicked = FALSE
    /\ options = <<>>
    /\ selected_puzzle = NoPuzzle
    /\ puzzle = ""
    /\ b_ground_truth = <<>>
    /\ b_calls = <<>>
    /\ b_outcome = NoOutcome
    /\ b_connected = FALSE
    /\ b_response = None
    /\ b_result = "none"
    /\ b_raised = "none"

\* the index harness with an Embedder of one stable dimension
NextIndex ==
    \/ \E chunks \in Batches, failAt \in 0..MaxBatch :
          failAt <= Len(chunks) /\ index_documents(chunks, Dim, failAt)
    \/ \E query \in QueryTexts, k \in 1..DefaultK, ok \in BOOLEAN :
          similarity_search(query, k, ok)

SpecIndex == InitIndex /\ [][NextIndex]_vars

\* the index harness with an Embedder whose answers vary in dimension
NextAnyDim ==
    \/ \E chunks \in Batches, d \in {Dim, Dim + 1} : index_documents(chunks, d, 0)
    \/ \E query \in QueryTexts, ok \in BOOLEAN : similarity_search(query, DefaultK, ok)

SpecAnyDim == InitIndex /\ [][NextAnyDim]_vars

\* the document assistant: a Streamlit session
Init ==
    /\ c_doc = <<>>
    /\ c_size = 1
    /\ c_overlap = 0
    /\ c_done = FALSE
    /\ c_out = <<>>
    /\ DOCUMENT_VECTOR_DB = <<>>
    /\ numpy_ties \in {"stable", "reversed"}
    /\ s_raised = "none"
    /\ s_last = NoSearch
    /\ s_repeated = FALSE
    /\ pc = "start"
    /\ uploaded_pdf = "none"
    /\ user_input = <<>>
    /\ calls = <<>>
    /\ relevant_docs = <<>>
    /\ prompt = <<>>
    /\ llm_output = <<>>
    /\ ai_response = <<>>
    /\ raised = "none"
    /\ first_ingest = [done |-> FALSE, entries |-> <<>>]
    /\ answered = 0
    /\ g_response = None
    /\ g_ground_truth = None
    /\ g_done = FALSE
    /\ g_correct = FALSE
    /\ g_correct_local = FALSE
    /\ o_params = EmptyDict
    /\ o_done = FALSE
    /\ o_config = EmptyDict
    /\ o_params_after = EmptyDict
    /\ b_app = "hosted"
    /\ b_pc = "idle"
    /\ difficulty = {"Medium", "Hard"}
    /\ category = {"General Knowledge", "Word Play"}
    /\ input_type = "Sample Puzzle"
    /\ rendered = "none"
    /\ clicked = FALSE
    /\ options = <<>>
    /\ selected_puzzle = NoPuzzle
    /\ puzzle = ""
    /\ b_ground_truth = <<>>
    /\ b_calls = <<>>
    /\ b_outcome = NoOutcome
    /\ b_connected = FALSE
    /\ b_response = None
    /\ b_result = "none"
    /\ b_raised = "none"

Next ==
    \/ \E file \in Files : UploadFile(file)
    \/ \E question \in Questions : SubmitQuestion(question)
    \/ Rerun
    \/ ModuleTopLevel
    \/ MainNoFile
    \/ \E failAt \in 0..3 : process_document(failAt)
    \/ ChatNoQuestion
    \/ \E ok \in BOOLEAN : Retrieve(ok)
    \/ \E out \in GeneratorOutputs \cup {<<>>} : generate_answer(out)

Spec == Init /\ [][Next]_vars

\* the grading harness: analyze_response applied to one answer and one
\* ground truth
InitGrade ==
    /\ c_doc = <<>>
    /\ c_size = 1
    /\ c_overlap = 0
    /\ c_done = FALSE
    /\ c_out = <<>>
    /\ DOCUMENT_VECTOR_DB = <<>>
    /\ numpy_ties = "stable"
    /\ s_raised = "none"
    /\ s_last = NoSearch
    /\ s_repeated = FALSE
    /\ pc = "idle"
    /\ uploaded_pdf = "none"
    /\ user_input = <<>>
    /\ calls = <<>>
    /\ relevant_docs = <<>>
    /\ prompt = <<>>
    /\ llm_output = <<>>
    /\ ai_response = <<>>
    /\ raised = "none"
    /\ first_ingest = [done |-> FALSE, entries |-> <<>>]
    /\ answered = 0
    /\ g_response \in Responses
    /\ g_ground_truth \in GroundTruths
    /\ g_done = FALSE
    /\ g_correct = FALSE
    /\ g_correct_local = FALSE
    /\ o_params = EmptyDict
    /\ o_done = FALSE
    /\ o_config = EmptyDict
    /\ o_params_after = EmptyDict
    /\ b_app = "hosted"
    /\ b_pc = "idle"
    /\ difficulty = {"Medium", "Hard"}
    /\ category = {"General Knowledge", "Word Play"}
    /\ input_type = "Sample Puzzle"
    /\ rendered = "none"
    /\ clicked = FALSE
    /\ options = <<>>
    /\ selected_puzzle = NoPuzzle
    /\ puzzle = ""
    /\ b_ground_truth = <<>>
    /\ b_calls = <<>>
    /\ b_outcome = NoOutcome
    /\ b_connected = FALSE
    /\ b_response = None
    /\ b_result = "none"
    /\ b_raised = "none"

NextGrade == Analyze

SpecGrade == InitGrade /\ [][NextGrade]_vars

\* the configuration harness: create_ollama_config applied to one dictionary
InitConfig ==
    /\ c_doc = <<>>
    /\ c_size = 1
    /\ c_overlap = 0
    /\ c_done = FALSE
    /\ c_out = <<>>
    /\ DOCUMENT_VECTOR_DB = <<>>
    /\ numpy_ties = "stable"
    /\ s_raised = "none"
    /\ s_last = NoSearch
    /\ s_repeated = FALSE
    /\ pc = "idle"
    /\ uploaded_pdf = "none"
    /\ user_input = <<>>
    /\ calls = <<>>
    /\ relevant_docs = <<>>
    /\ prompt = <<>>
    /\ llm_output = <<>>
    /\ ai_response = <<>>
    /\ raised = "none"
    /\ first_ingest = [done |-> FALSE, entries |-> <<>>]
    /\ answered = 0
    /\ g_response = None
    /\ g_ground_truth = None
    /\ g_done = FALSE
    /\ g_correct = FALSE
    /\ g_correct_local = FALSE
    /\ o_params \in ParamDicts
    /\ o_done = FALSE
    /\ o_config = EmptyDict
    /\ o_params_after = EmptyDict
    /\ b_app = "hosted"
    /\ b_pc = "idle"
    /\ difficulty = {"Medium", "Hard"}
    /\ category = {"General Knowledge", "Word Play"}
    /\ input_type = "Sample Puzzle"
    /\ rendered = "none"
    /\ clicked = FALSE
    /\ options = <<>>
    /\ selected_puzzle = NoPuzzle
    /\ puzzle = ""
    /\ b_ground_truth = <<>>
    /\ b_calls = <<>>
    /\ b_outcome = NoOutcome
    /\ b_connected = FALSE
    /\ b_response = None
    /\ b_result = "none"
    /\ b_raised = "none"

NextConfig == CreateConfig

SpecConfig == InitConfig /\ [][NextConfig]_vars

\* a session of a benchmark application, from the first run of its script
InitBench ==
    /\ c_doc = <<>>
    /\ c_size = 1
    /\ c_overlap = 0
    /\ c_done = FALSE
    /\ c_out = <<>>
    /\ DOCUMENT_VECTOR_DB = <<>>
    /\ numpy_ties = "stable"
    /\ s_raised = "none"
    /\ s_last = NoSearch
    /\ s_repeated = FALSE
    /\ pc = "idle"
    /\ uploaded_pdf = "none"
    /\ user_input = <<>>
    /\ calls = <<>>
    /\ relevant_docs = <<>>
    /\ prompt = <<>>
    /\ llm_output = <<>>
    /\ ai_response = <<>>
    /\ raised = "none"
    /\ first_ingest = [done |-> FALSE, entries |-> <<>>]
    /\ answered = 0
    /\ g_response = None
    /\ g_ground_truth = None
    /\ g_done = FALSE
    /\ g_correct = FALSE
    /\ g_correct_local = FALSE
    /\ o_params = EmptyDict
    /\ o_done = FALSE
    /\ o_config = EmptyDict
    /\ o_params_after = EmptyDict
    /\ b_app \in Apps
    /\ b_pc = "run"
    /\ difficulty = {"Medium", "Hard"}
    /\ category = {"General Knowledge", "Word Play"}
    /\ input_type = "Sample Puzzle"
    /\ rendered = "none"
    /\ clicked = FALSE
    /\ options = <<>>
    /\ selected_puzzle = NoPuzzle
    /\ puzzle = ""
    /\ b_ground_truth = <<>>
    /\ b_calls = <<>>
    /\ b_outcome = NoOutcome
    /\ b_connected = FALSE
    /\ b_response = None
    /\ b_result = "none"
    /\ b_raised = "none"

NextBench ==
    \/ \E d \in SUBSET DifficultyOptions : SetDifficulty(d)
    \/ \E c \in SUBSET CategoryOptions : SetCategory(c)
    \/ \E t \in InputTypes : ChooseInputType(t)
    \/ \E name \in Range(test_cases_keys) : SelectPuzzle(name)
    \/ \E text \in CustomPuzzles, answer \in CustomTruths : EnterCustom(text, answer)
    \/ ClickTestModel
    \/ PuzzleSelection
    \/ \E ok \in BOOLEAN : ConnectionCheck(ok)
    \/ \E outcome \in OutcomesOf(b_app) : Request(outcome)
    \/ Respond

SpecBench == InitBench /\ [][NextBench]_vars

(***************************************************************************)
(* Pipeline claims (the document assistant)                                *)
(***************************************************************************)
\* C1: when the Embedder fails for a passage during ingest, the ingest fails
\* and the index holds the entries it held when the ingest started; the
\* script run builds its store empty, so it holds none.
C1_AtomicIngest == IngestFailed => DOCUMENT_VECTOR_DB = <<>>

\* the ingest of the three-passage paper has failed
C1_Witness ==
    /\ IngestFailed
    /\ pc = "idle"
    /\ uploaded_pdf = "paper.pdf"
    /\ Len(chunk_documents(load_pdf_documents(uploaded_pdf))) = 3

RECURSIVE BlankLineJoined(_)
BlankLineJoined(texts) ==
    IF texts = <<>> THEN <<>>
    ELSE IF Len(texts) = 1 THEN texts[1]
    ELSE texts[1] \o <<"\n", "\n">> \o BlankLineJoined(Tail(texts))

\* C9: the prompt is the template with the query in its first placeholder and,
\* in its second, the passage texts in the order given joined by a blank
\* line; without passages the context is empty.
C9_Prompt ==
    (pc = "idle" /\ prompt # <<>>) =>
        prompt = <<TemplateHead>> \o user_input \o <<TemplateMiddle>>
                    \o BlankLineJoined([i \in 1..Len(relevant_docs) |->
                                            relevant_docs[i].page_content])
                    \o <<TemplateTail>>

\* a prompt assembled from several passages
C9_Witness == pc = "idle" /\ prompt # <<>> /\ Len(relevant_docs) >= 2

\* C10: a script run that reaches the Generator has retrieved, then assembled,
\* then called the Generator exactly once; it shows the Generator's output
\* unchanged, or, when the call failed, ends with that failure and no answer.
C10_GenerateOnce ==
    (pc = "idle" /\ \E i \in 1..Len(calls) : calls[i] = "generate") =>
        /\ calls = <<"ingest", "retrieve", "assemble", "generate">>
        /\ \/ raised = "none" /\ llm_output # <<>> /\ ai_response = llm_output
           \/ raised = "GenerationFailure" /\ llm_output = <<>> /\ ai_response = <<>>

\* an answer with leading and trailing whitespace has been shown
C10_Witness ==
    /\ pc = "idle"
    /\ raised = "none"
    /\ calls = <<"ingest", "retrieve", "assemble", "generate">>
    /\ ai_response = <<" ", "n", "o", "\n">>

(***************************************************************************)
(* Chunking claims                                                         *)
(***************************************************************************)
Chunked == c_done

NoSeparator(text) == \A i \in 1..Len(text) : text[i] \notin Whitespace

\* the window of length cs starting at 0-based offset start
Window(text, start, cs) ==
    [page_content |-> SubSeq(text, start + 1,
                             IF start + cs < Len(text) THEN start + cs ELSE Len(text)),
     start_index |-> start]

\* a window at every multiple of cs - ov below the length of the text
SlidingWindows(text, cs, ov) ==
    [j \in 1..((Len(text) - 1) \div (cs - ov) + 1) |-> Window(text, (j - 1) * (cs - ov), cs)]

\* the windows that hold at least one character the previous window lacks
FreshWindows(text, cs, ov) ==
    SelectSeq(SlidingWindows(text, cs, ov),
              LAMBDA w : w.start_index = 0 \/ w.start_index + ov < Len(text))

Prefix(t, n) == SubSeq(t, 1, IF n < Len(t) THEN n ELSE Len(t))

\* first cs - ov characters of every passage but the last, then the last whole
Reconstruct(passages, cs, ov) ==
    concat([i \in 1..Len(passages) |->
              IF i < Len(passages)
              THEN Prefix(passages[i].page_content, cs - ov)
              ELSE passages[i].page_content])

Found == s_last.k # 0 /\ s_last.raised = "none"

\* similarity to the last query of the entry stored at position i
SimAt(i) == Similarity(DOCUMENT_VECTOR_DB[i].vector, Embedding(s_last.query, Dim))

\* position in the store of the p-th document returned
Hit(p) == s_last.docs[p].id

\* at most k documents, each a distinct stored entry, in non-increasing
\* similarity, and nothing left out is more similar than a document returned
Ranked ==
    LET n == Len(DOCUMENT_VECTOR_DB)
        m == Len(s_last.docs)
    IN  /\ m <= s_last.k
        /\ \A p \in 1..m :
              /\ Hit(p) \in 1..n
              /\ s_last.docs[p] = Document(DOCUMENT_VECTOR_DB[Hit(p)])
        /\ \A p, r \in 1..m :
              p < r => (Hit(p) # Hit(r) /\ ~SimLess(SimAt(Hit(p)), SimAt(Hit(r))))
        /\ \A i \in 1..n, p \in 1..m :
              (\A r \in 1..m : Hit(r) # i) => ~SimLess(SimAt(Hit(p)), SimAt(i))

\* of two returned documents of equal similarity the one inserted earlier
\* comes first
EarlierFirst ==
    \A p, r \in 1..Len(s_last.docs) :
        (p < r /\ SimEqual(SimAt(Hit(p)), SimAt(Hit(r)))) => Hit(p) < Hit(r)

\* C5 as stated: search returns at most k passages in non-increasing
\* similarity, none left out is more similar than one returned, and among
\* entries of equal similarity the one inserted earlier is ranked first.
C5_RankedEarlierFirst == Found => (Ranked /\ EarlierFirst)

\* C5 amended: search returns at most k passages in non-increasing
\* similarity and none left out is more similar than one returned; the order
\* among entries of equal similarity is not fixed by insertion order.
C5_Ranked == Found => Ranked

\* more entries than k, and two returned documents tie
C5_Witness ==
    /\ Found
    /\ Len(DOCUMENT_VECTOR_DB) > s_last.k
    /\ Len(s_last.docs) = s_last.k
    /\ \E p, r \in 1..Len(s_last.docs) :
          p < r /\ SimEqual(SimAt(Hit(p)), SimAt(Hit(r)))

\* C6: on an index of n <= k entries a search (whose query was embedded)
\* returns exactly n results, one per entry, in non-increasing similarity; on
\* the empty index it returns the empty sequence and raises nothing.
C6_AllEntries ==
    (s_last.k # 0 /\ s_last.raised # "EmbeddingFailure"
        /\ Len(DOCUMENT_VECTOR_DB) <= s_last.k) =>
        /\ s_last.raised = "none"
        /\ Len(s_last.docs) = Len(DOCUMENT_VECTOR_DB)
        /\ {Hit(p) : p \in 1..Len(s_last.docs)} = 1..Len(DOCUMENT_VECTOR_DB)
        /\ \A p, r \in 1..Len(s_last.docs) :
              p < r => ~SimLess(SimAt(Hit(p)), SimAt(Hit(r)))
        /\ DOCUMENT_VECTOR_DB = <<>> => s_last.docs = <<>>

\* a search on an index of at least two and at most k entries, not all of
\* the same similarity
C6_Witness ==
    /\ Found
    /\ Len(DOCUMENT_VECTOR_DB) >= 2
    /\ Len(DOCUMENT_VECTOR_DB) <= s_last.k
    /\ Len(s_last.docs) = Len(DOCUMENT_VECTOR_DB)
    /\ SimLess(SimAt(Hit(Len(s_last.docs))), SimAt(Hit(1)))

SearchStep == s_last'.k # 0

\* C11: a retrieval calls the Embedder once for the query, leaves the entries
\* of the index as they were whether the call succeeds or fails, and a
\* failure of the Embedder reaches the caller as the raised exception with
\* nothing returned.
C11_RetrievalFrame ==
    [][SearchStep =>
          /\ DOCUMENT_VECTOR_DB' = DOCUMENT_VECTOR_DB
          /\ s_last'.embed_calls = 1
          /\ s_last'.embed_failed =>
                 (s_last'.raised = "EmbeddingFailure" /\ s_last'.docs = <<>>)]_vars

C11_Witness ==
    /\ s_last.k # 0
    /\ s_last.embed_failed
    /\ s_last.raised = "EmbeddingFailure"
    /\ Len(DOCUMENT_VECTOR_DB) >= 2

(***************************************************************************)
(* Dimension claim (index harness, Embedder of varying dimension)          *)
(***************************************************************************)
\* C8: an entry whose embedding length differs from that of the first entry
\* is rejected, so all entries of the index have embeddings of one length.
C8_OneDimension ==
    \A i \in 1..Len(DOCUMENT_VECTOR_DB) :
        Len(DOCUMENT_VECTOR_DB[i].vector) = Len(DOCUMENT_VECTOR_DB[1].vector)


(***************************************************************************)
(* Grading claim (grading harness)                                         *)
(***************************************************************************)
\* t without its leading and trailing whitespace
Trimmed(t) ==
    IF \A i \in 1..Len(t) : t[i] \in Whitespace
    THEN <<>>
    ELSE LET first == CHOOSE i \in 1..Len(t) :
                         t[i] \notin Whitespace /\ \A j \in 1..(i - 1) : t[j] \in Whitespace
             last == CHOOSE i \in 1..Len(t) :
                        t[i] \notin Whitespace /\ \A j \in (i + 1)..Len(t) : t[j] \in Whitespace
         IN  SubSeq(t, first, last)

\* t with its capital letters replaced by the small ones
Folded(t) == [i \in 1..Len(t) |-> IF t[i] = "A" THEN "a" ELSE IF t[i] = "B" THEN "b" ELSE t[i]]

\* the phrases of t: the stretches between two neighbouring ';' (or an end)
PhrasesOf(t) ==
    LET cuts == {0, Len(t) + 1} \cup {i \in 1..Len(t) : t[i] = ";"}
    IN  {SubSeq(t, i + 1, j - 1) :
            <<i, j>> \in {c \in cuts \X cuts :
                             c[1] < c[2] /\ \A m \in cuts : ~(c[1] < m /\ m < c[2])}}

Substring(p, t) == \E i \in 1..(Len(t) + 1), j \in 0..Len(t) : SubSeq(t, i, j) = p

AllPhrasesPresent(answer, truth) ==
    \A p \in PhrasesOf(Trimmed(Folded(truth))) :
        Substring(Trimmed(p), Trimmed(Folded(answer)))

Missing(x) == x = None \/ x = Str(<<>>)

\* C12: analyze_response returns true exactly when every ';'-separated,
\* trimmed phrase of the case-folded, trimmed ground truth occurs in the
\* case-folded, trimmed response, and false whenever the response or the
\* ground truth is empty or missing; the two benchmarks return the same.
C12_Analyze ==
    g_done =>
       /\ g_correct = (/\ ~Missing(g_response)
                       /\ ~Missing(g_ground_truth)
                       /\ AllPhrasesPresent(g_response.text, g_ground_truth.text))
       /\ (Missing(g_response) \/ Missing(g_ground_truth)) => ~g_correct
       /\ g_correct_local = g_correct

C12_Witness ==
    /\ g_done
    /\ g_correct
    /\ g_correct_local
    /\ g_ground_truth.text = <<"A", ";", "b">>
    /\ g_response.text = <<"b", "A">>


(***************************************************************************)
(* Configuration claim (configuration harness)                             *)
(***************************************************************************)
ConfigKeys ==
    {"temperature", "num_ctx", "repeat_penalty", "repeat_last_n", "top_k", "top_p", "seed"}

\* params has a value other than None under key
HasValue(params, key) == key \in DOMAIN params /\ params[key] # NoneValue

\* C13: the dictionary returned holds one of the seven keys exactly when
\* params has a value other than None for it (and, for seed, other than -1),
\* with that value; it holds no other key; params is as it was.
C13_Config ==
    o_done =>
       /\ \A key \in ConfigKeys :
             /\ key \in DOMAIN o_config <=>
                   (HasValue(o_params, key) /\ ~(key = "seed" /\ o_params[key] = Num(-1)))
             /\ key \in DOMAIN o_config => o_config[key] = o_params[key]
       /\ DOMAIN o_config \subseteq ConfigKeys
       /\ o_params_after = o_params

C13_Witness ==
    /\ o_done
    /\ DOMAIN o_params = ConfigKeys \cup {"model"}
    /\ o_params["seed"] = Num(-1)
    /\ o_params["temperature"] = Num(0)
    /\ o_params["top_k"] = NoneValue
    /\ DOMAIN o_config = ConfigKeys \ {"seed", "top_k"}


(***************************************************************************)
(* Benchmark claims (a session of a benchmark application)                 *)
(***************************************************************************)
\* the completion request of this run failed
RequestFailed == b_outcome.kind \notin {"none", "content"}

\* C14: when the completion request fails, get_model_response returns None
\* and raises nothing, and no Result is shown; a Result is shown only for a
\* response that is not empty; the local-server benchmark sends the
\* completion request only after its connection check returned True.
C14_NoResultOnFailure ==
    /\ RequestFailed => (b_response = None /\ b_raised = "none" /\ b_result = "none")
    /\ b_result # "none" => (b_response # None /\ b_response.text # <<>>)
    /\ (b_app = "local" /\ "request" \in Range(b_calls)) =>
          (b_connected /\ SubSeq(b_calls, 1, 2) = <<"connect", "request">>)

C14_Witness ==
    /\ b_app = "local"
    /\ b_pc = "idle"
    /\ clicked
    /\ b_outcome.kind = "status_500"
    /\ b_response = None
    /\ b_result = "none"
    /\ b_calls = <<"connect", "request">>

\* C15: in the hosted-API benchmark, whatever the two filters are, a run in
\* Sample Puzzle mode ends with a selected puzzle that is one of the filtered
\* ones, its look-up raises nothing, and the puzzle handed on is its
\* challenge and satisfies both filters.
C15_SelectionInFilter ==
    (b_app = "hosted" /\ b_pc # "run" /\ rendered = "Sample Puzzle") =>
       /\ b_raised # "KeyError"
       /\ selected_puzzle \in Range(filtered_puzzles(difficulty, category))
       /\ puzzle = test_cases[selected_puzzle].challenge
       /\ b_ground_truth = test_cases[selected_puzzle].ground_truth
       /\ test_cases[selected_puzzle].difficulty \in difficulty
       /\ test_cases[selected_puzzle].category \in category

=============================================================================
